---- MODULE Spec2Model ----
(***************************************************************************)
(* The FareHarbor webhook pipeline of src/routes/webhookRoutes.js, mounted *)
(* behind the raw-body middleware of src/app.js (lines 557-570), over the  *)
(* three relations created by initializeDatabase (src/app.js 26-77).       *)
(*                                                                         *)
(* Every await on the pool is one atomic step of the store; the code that  *)
(* runs between two awaits of a request is folded into the step that       *)
(* precedes it.  A store operation may fail at any time.                   *)
(***************************************************************************)
EXTENDS Integers, Sequences, FiniteSets, TLC

(***************************************************************************)
(* Bounds of the model.                                                    *)
(***************************************************************************)
\* number of POST /webhook requests of a behaviour
MaxRequests == 2
\* number of statements the store fails in a behaviour
MaxFailures == 1
\* length of the hex digest (64 in the program; the code never reads it)
DigestLen == 3

(***************************************************************************)
(* JavaScript values.  Undefined stands for undefined, null and SQL NULL   *)
(* among strings, NoNum among numbers.                                     *)
(***************************************************************************)
Undefined == "undefined"
NoNum == -1

TruthyS(s) == s \notin {Undefined, ""}
TruthyN(n) == n \notin {NoNum, 0}
\* a || b
OrS(a, b) == IF TruthyS(a) THEN a ELSE b
OrN(a, b) == IF TruthyN(a) THEN a ELSE b

(***************************************************************************)
(* Payload shapes.  An absent object is a record with present = FALSE      *)
(* whose fields are all Undefined, so that obj?.field is obj.field.        *)
(***************************************************************************)
NoPerson == [present |-> FALSE, email |-> Undefined, name |-> Undefined, phone |-> Undefined]
NoContact ==
    [present |-> FALSE, email |-> Undefined, name |-> Undefined, phone |-> Undefined,
     customer |-> NoPerson]
NoItem == [present |-> FALSE, name |-> Undefined]
NoAvailability == [present |-> FALSE, item |-> NoItem, start_datetime |-> Undefined]
NoPayload ==
    [present |-> FALSE,
     display_id |-> Undefined, pk |-> Undefined, id |-> Undefined,
     contact |-> NoContact, customer |-> NoContact,
     customer_email |-> Undefined, customer_name |-> Undefined,
     availability |-> NoAvailability, item |-> NoItem, tour_name |-> Undefined,
     start_datetime |-> Undefined, tour_date |-> Undefined,
     customer_count |-> NoNum, passenger_count |-> NoNum,
     amount |-> NoNum, price |-> NoNum,
     status |-> Undefined, booking_source |-> Undefined, source |-> Undefined,
     special_requests |-> Undefined]
EmptyPayload == [NoPayload EXCEPT !.present = TRUE]
Contact(email, name, phone) ==
    [present |-> TRUE, email |-> email, name |-> name, phone |-> phone, customer |-> NoPerson]
Availability(tour, start) ==
    [present |-> TRUE, item |-> [present |-> TRUE, name |-> tour], start_datetime |-> start]

\* the parsed request body: {event_type, payload}, or JSON null
EmptyBody == [isNull |-> FALSE, event_type |-> Undefined, payload |-> NoPayload]
NullBody == [EmptyBody EXCEPT !.isNull = TRUE]
Body(event_type, payload) == [isNull |-> FALSE, event_type |-> event_type, payload |-> payload]

(***************************************************************************)
(* The body on the wire.  kind "json": the bytes of the JSON text of       *)
(* value; "garbage": bytes that are no JSON text; "empty": a body of zero  *)
(* bytes that express.raw read; "none": express.raw read no body           *)
(* (no body, or another content type) and req.body is no Buffer.           *)
(***************************************************************************)
Json(value) == [kind |-> "json", value |-> value]
Garbage == [kind |-> "garbage", value |-> EmptyBody]
EmptyBuffer == [kind |-> "empty", value |-> EmptyBody]
NotABuffer == [kind |-> "none", value |-> EmptyBody]
IsBuffer(rawBody) == rawBody.kind # "none"
BufferLength(rawBody) == IF rawBody.kind \in {"json", "garbage"} THEN 1 ELSE 0

\* mutant: a body that is no JSON text, or none, is passed on as null
RawBodyCaptureNull(rawBody) ==
    IF IsBuffer(rawBody) /\ BufferLength(rawBody) > 0 /\ rawBody.kind = "json"
    THEN rawBody.value
    ELSE NullBody
\* app.use('/webhook', express.raw(...), ...): the body the route sees
RawBodyCapture(rawBody) ==
    IF IsBuffer(rawBody) /\ BufferLength(rawBody) > 0
    THEN IF rawBody.kind = "json" THEN rawBody.value ELSE EmptyBody
    ELSE EmptyBody

(***************************************************************************)
(* Signature verification.  A string is a sequence of characters; a        *)
(* character is a literal or the i-th hex digit of an HMAC, kept symbolic: *)
(* two digests agree only when key, message and position agree.            *)
(***************************************************************************)
Lit(c) == [ch |-> c, mac |-> <<>>]
MacChar(secret, rawBody, i) == [ch |-> "", mac |-> <<secret, rawBody, i>>]
\* crypto.createHmac('sha256', secret).update(rawBody).digest('hex')
HmacHex(secret, rawBody) == [i \in 1..DigestLen |-> MacChar(secret, rawBody, i)]
Sha256Prefix == <<Lit("s"), Lit("h"), Lit("a"), Lit("2"), Lit("5"), Lit("6"), Lit("=")>>
NonAscii == Lit("e-acute")

StartsWith(s, p) == Len(s) >= Len(p) /\ SubSeq(s, 1, Len(p)) = p
Slice(s, n) == SubSeq(s, n + 1, Len(s))
\* Buffer.from(string): the UTF-8 bytes, two for a character outside ASCII
RECURSIVE BufferFrom(_)
BufferFrom(s) ==
    IF s = <<>> THEN <<>>
    ELSE (IF Head(s) = NonAscii THEN <<Lit("0xC3"), Lit("0xA9")>> ELSE <<Head(s)>>)
         \o BufferFrom(Tail(s))

\* mutant: the sha256= prefix is not stripped
VerifyWithoutStripping(signature, webhookSecret, rawBody) ==
    IF ~TruthyS(webhookSecret) THEN "next"
    ELSE IF signature = <<>> THEN "401"
    ELSE IF ~IsBuffer(rawBody) THEN "401"
    ELSE LET a == BufferFrom(HmacHex(webhookSecret, rawBody))
             b == BufferFrom(signature)
         IN  IF Len(a) # Len(b) THEN "401"
             ELSE IF a = b THEN "next" ELSE "401"
\* mutant: the signature is demanded before the secret is looked at
VerifyRequiresSignature(signature, webhookSecret, rawBody) ==
    IF signature = <<>> THEN "401"
    ELSE IF ~TruthyS(webhookSecret) THEN "next"
    ELSE IF ~IsBuffer(rawBody) THEN "401"
    ELSE LET a == BufferFrom(HmacHex(webhookSecret, rawBody))
             b == BufferFrom(IF StartsWith(signature, Sha256Prefix)
                             THEN Slice(signature, 7) ELSE signature)
         IN  IF Len(a) # Len(b) THEN "401"
             ELSE IF a = b THEN "next" ELSE "401"
\* the middleware verifyWebhookSignature: "next" or the status it answers
verifyWebhookSignature(signature, webhookSecret, rawBody) ==
    IF ~TruthyS(webhookSecret) THEN "next"
    ELSE IF signature = <<>> THEN "401"
    ELSE IF ~IsBuffer(rawBody) THEN "401"
    ELSE LET expectedSignature == HmacHex(webhookSecret, rawBody)
             providedSignature ==
                 IF StartsWith(signature, Sha256Prefix) THEN Slice(signature, 7) ELSE signature
             a == BufferFrom(expectedSignature)
             b == BufferFrom(providedSignature)
         IN  IF Len(a) # Len(b) THEN "401"
             ELSE IF a = b THEN "next" ELSE "401"

(***************************************************************************)
(* The store.                                                              *)
(***************************************************************************)
VARIABLES
    webhookSecret,  \* process.env.FAREHARBOR_WEBHOOK_SECRET
    customers,      \* rows of table customers
    bookings,       \* rows of table bookings
    webhook_events, \* rows of table webhook_events, in insertion order
    rq,             \* the requests: position, locals, response
    failures        \* statements the store has failed

vars == <<webhookSecret, customers, bookings, webhook_events, rq, failures>>
tables == <<customers, bookings, webhook_events>>

Max(S) == IF S = {} THEN 0 ELSE CHOOSE m \in S : \A x \in S : x <= m
\* SERIAL: a key no row of the table holds
NextId(table) == Max({r.id : r \in table}) + 1


\* mutant: a plain INSERT on a column that is not unique
UpsertCustomerNoConflict(table, email, name, phone) ==
    table \cup {[id |-> NextId(table), email |-> email, name |-> name, phone |-> phone]}
\* mutant: ON CONFLICT (email) DO NOTHING
UpsertCustomerKeepsFirst(table, email, name, phone) ==
    IF \E r \in table : r.email = email
    THEN table
    ELSE table \cup {[id |-> NextId(table), email |-> email, name |-> name, phone |-> phone]}
\* INSERT INTO customers ... ON CONFLICT (email) DO UPDATE SET name, phone
UpsertCustomer(table, email, name, phone) ==
    IF \E r \in table : r.email = email
    THEN {IF r.email = email THEN [r EXCEPT !.name = name, !.phone = phone] ELSE r : r \in table}
    ELSE table \cup {[id |-> NextId(table), email |-> email, name |-> name, phone |-> phone]}
\* RETURNING id
ReturningId(table, email) == (CHOOSE r \in table : r.email = email).id

\* mutant: the primary-key field is tried before the display identifier
BookingValuesPkFirst(bookingData, customerId) ==
    [fareharbor_id |-> OrS(bookingData.pk, OrS(bookingData.display_id, bookingData.id)),
     customer_id |-> customerId,
     customer_email |->
         OrS(bookingData.contact.email, OrS(bookingData.customer.email, bookingData.customer_email)),
     customer_name |->
         OrS(bookingData.contact.name, OrS(bookingData.customer.name, bookingData.customer_name)),
     tour_name |->
         OrS(bookingData.availability.item.name, OrS(bookingData.item.name, bookingData.tour_name)),
     tour_date |->
         OrS(bookingData.availability.start_datetime,
             OrS(bookingData.start_datetime, bookingData.tour_date)),
     passenger_count |-> OrN(bookingData.customer_count, OrN(bookingData.passenger_count, 1)),
     amount |-> OrN(bookingData.amount, OrN(bookingData.price, 0)),
     status |-> OrS(bookingData.status, "confirmed"),
     booking_source |-> OrS(bookingData.booking_source, OrS(bookingData.source, "fareharbor")),
     special_requests |-> OrS(bookingData.special_requests, Undefined),
     raw_data |-> bookingData]
\* the values saveBooking binds to $1..$12
BookingValues(bookingData, customerId) ==
    [fareharbor_id |-> OrS(bookingData.display_id, OrS(bookingData.pk, bookingData.id)),
     customer_id |-> customerId,
     customer_email |->
         OrS(bookingData.contact.email, OrS(bookingData.customer.email, bookingData.customer_email)),
     customer_name |->
         OrS(bookingData.contact.name, OrS(bookingData.customer.name, bookingData.customer_name)),
     tour_name |->
         OrS(bookingData.availability.item.name, OrS(bookingData.item.name, bookingData.tour_name)),
     tour_date |->
         OrS(bookingData.availability.start_datetime,
             OrS(bookingData.start_datetime, bookingData.tour_date)),
     passenger_count |-> OrN(bookingData.customer_count, OrN(bookingData.passenger_count, 1)),
     amount |-> OrN(bookingData.amount, OrN(bookingData.price, 0)),
     status |-> OrS(bookingData.status, "confirmed"),
     booking_source |-> OrS(bookingData.booking_source, OrS(bookingData.source, "fareharbor")),
     special_requests |-> OrS(bookingData.special_requests, Undefined),
     raw_data |-> bookingData]

\* the row INSERT INTO bookings adds for the values v
InsertedBooking(table, v) ==
    [id |-> NextId(table), fareharbor_id |-> v.fareharbor_id, customer_id |-> v.customer_id,
     customer_email |-> v.customer_email, customer_name |-> v.customer_name,
     tour_name |-> v.tour_name, tour_date |-> v.tour_date,
     passenger_count |-> v.passenger_count, amount |-> v.amount, status |-> v.status,
     booking_source |-> v.booking_source, special_requests |-> v.special_requests,
     raw_data |-> v.raw_data]
\* mutant: the conflict clause of an earlier draft, which assigns status,
\* amount and passenger_count alone
ConflictUpdateStatusOnly(r, v) ==
    [r EXCEPT !.status = v.status, !.amount = v.amount, !.passenger_count = v.passenger_count]
\* mutant: the conflict clause assigns every column of the new values
ConflictUpdateEverything(r, v) ==
    [r EXCEPT !.status = v.status, !.amount = v.amount, !.passenger_count = v.passenger_count,
              !.customer_email = v.customer_email, !.customer_name = v.customer_name,
              !.tour_name = v.tour_name, !.tour_date = v.tour_date,
              !.customer_id = v.customer_id, !.booking_source = v.booking_source,
              !.special_requests = v.special_requests, !.raw_data = v.raw_data]
\* mutant: the conflict clause assigns customer_id besides the columns it names
ConflictUpdateRelinks(r, v) ==
    [r EXCEPT !.status = v.status, !.amount = v.amount, !.passenger_count = v.passenger_count,
              !.customer_email = v.customer_email, !.customer_name = v.customer_name,
              !.tour_name = v.tour_name, !.tour_date = v.tour_date,
              !.customer_id = v.customer_id]
\* mutant: the conflict clause leaves the status of a cancelled row alone
ConflictUpdateKeepsCancelled(r, v) ==
    [r EXCEPT !.status = IF r.status = "cancelled" THEN "cancelled" ELSE v.status,
              !.amount = v.amount, !.passenger_count = v.passenger_count,
              !.customer_email = v.customer_email, !.customer_name = v.customer_name,
              !.tour_name = v.tour_name, !.tour_date = v.tour_date]
\* ON CONFLICT (fareharbor_id) DO UPDATE SET ... = EXCLUDED. ...
ConflictUpdate(r, v) ==
    [r EXCEPT !.status = v.status, !.amount = v.amount, !.passenger_count = v.passenger_count,
              !.customer_email = v.customer_email, !.customer_name = v.customer_name,
              !.tour_name = v.tour_name, !.tour_date = v.tour_date]
\* mutant: a plain INSERT on a column that is not unique
UpsertBookingNoConflict(table, v) == table \cup {InsertedBooking(table, v)}
\* INSERT INTO bookings ... ON CONFLICT (fareharbor_id) DO UPDATE, on the
\* UNIQUE column fareharbor_id
UpsertBooking(table, v) ==
    IF \E r \in table : r.fareharbor_id = v.fareharbor_id
    THEN {IF r.fareharbor_id = v.fareharbor_id THEN ConflictUpdate(r, v) ELSE r : r \in table}
    ELSE table \cup {InsertedBooking(table, v)}

\* mutant: the UPDATE has lost its WHERE clause
CancelEveryBooking(table, fareharborId) ==
    {[r EXCEPT !.status = "cancelled"] : r \in table}
\* mutant: the cancellation is an upsert, which inserts the row it misses
CancelBookingUpsert(table, fareharborId) ==
    IF \E r \in table : r.fareharbor_id = fareharborId
    THEN {IF r.fareharbor_id = fareharborId THEN [r EXCEPT !.status = "cancelled"] ELSE r
          : r \in table}
    ELSE table \cup {InsertedBooking(table,
                        [BookingValues(EmptyPayload, NoNum) EXCEPT
                            !.fareharbor_id = fareharborId, !.status = "cancelled"])}
\* UPDATE bookings SET status = 'cancelled' WHERE fareharbor_id = $1
CancelBooking(table, fareharborId) ==
    {IF r.fareharbor_id = fareharborId THEN [r EXCEPT !.status = "cancelled"] ELSE r : r \in table}
\* booking.display_id || booking.pk
CancelKey(booking) == OrS(booking.display_id, booking.pk)

\* payload?.display_id || payload?.pk
AuditKey(payload) == OrS(payload.display_id, payload.pk)
\* the row saveWebhookEvent inserts; rid names the request that wrote it
AuditEntry(rid, body, status) ==
    [rid |-> rid, event_type |-> body.event_type, fareharbor_id |-> AuditKey(body.payload),
     raw_payload |-> body, processing_status |-> status]

(***************************************************************************)
(* The requests.  pc is the await a request is suspended at.               *)
(***************************************************************************)
Requests == 1..MaxRequests
IdleRequest ==
    [pc |-> "idle", signature |-> <<>>, rawBody |-> NotABuffer, body |-> EmptyBody,
     customerId |-> NoNum, resp |-> 0,
     \* history: verifyWebhookSignature called next(); an audit insert of the request failed; a customer, booking
     \* or cancellation statement failed; the booking upsert failed; the
     \* upsert or the cancellation found a row
     verified |-> FALSE, auditFailed |-> FALSE, storeFailed |-> FALSE, upsertFailed |-> FALSE, hit |-> FALSE]

IsBookingWrite(event_type) == event_type \in {"booking.created", "booking.updated"}
\* booking.contact || booking.customer
CustomerData(booking) == IF booking.contact.present THEN booking.contact ELSE booking.customer
\* customerData.email || customerData.customer?.email, and so on
CustomerEmail(customerData) == OrS(customerData.email, customerData.customer.email)
CustomerName(customerData) == OrS(customerData.name, customerData.customer.name)
CustomerPhone(customerData) == OrS(customerData.phone, customerData.customer.phone)

\* saveBooking without an identifier returns before the query
AfterCustomer(payload) ==
    IF TruthyS(BookingValues(payload, NoNum).fareharbor_id) THEN "booking" ELSE "done"
\* mutant: the switch has no default, every type but the cancellation falls
\* into the created case
AfterAuditFallthrough(body) ==
    IF body.event_type # "booking.cancelled"
    THEN IF ~body.payload.present THEN "auditError"
         ELSE IF CustomerData(body.payload).present
                 /\ TruthyS(CustomerEmail(CustomerData(body.payload)))
              THEN "customer"
              ELSE AfterCustomer(body.payload)
    ELSE IF body.payload.present THEN "cancel" ELSE "done"
\* the switch of the route, up to the first await of the handler it calls
AfterAudit(body) ==
    IF IsBookingWrite(body.event_type)
    THEN IF ~body.payload.present THEN "auditError"
         ELSE IF CustomerData(body.payload).present
                 /\ TruthyS(CustomerEmail(CustomerData(body.payload)))
              THEN "customer"
              ELSE AfterCustomer(body.payload)
    ELSE IF body.event_type = "booking.cancelled"
         THEN IF body.payload.present THEN "cancel" ELSE "done"
         ELSE "done"

\* res.status(code) when the request has reached pc
Respond(r, pc, code) ==
    IF pc = "done" THEN [r EXCEPT !.pc = pc, !.resp = code] ELSE [r EXCEPT !.pc = pc]

\* pool.query resolves (ok) or rejects
Query(ok) ==
    /\ ok \/ failures < MaxFailures
    /\ failures' = IF ok THEN failures ELSE failures + 1

Init ==
    /\ webhookSecret = ""
    /\ customers = {}
    /\ bookings = {}
    /\ webhook_events = <<>>
    /\ rq = [i \in Requests |-> IdleRequest]
    /\ failures = 0

\* mutant: a rejected request is written to the audit table
ReceiveAuditsRejection(i, signature, wire) ==
    /\ rq[i].pc = "idle"
    /\ \A j \in Requests : j < i => rq[j].pc # "idle"
    /\ LET body == RawBodyCapture(wire)
           r == [rq[i] EXCEPT !.signature = signature, !.rawBody = wire, !.body = body]
       IN  IF verifyWebhookSignature(signature, webhookSecret, wire) = "401"
           THEN /\ rq' = [rq EXCEPT ![i] = Respond(r, "done", 401)]
                /\ webhook_events' = Append(webhook_events, AuditEntry(i, body, "error"))
           ELSE /\ UNCHANGED webhook_events
                /\ IF body.isNull
                   THEN \E lost \in BOOLEAN :
                           rq' = [rq EXCEPT ![i] =
                                     IF lost THEN [r EXCEPT !.pc = "hung", !.verified = TRUE]
                                     ELSE Respond([r EXCEPT !.verified = TRUE], "done", 500)]
                   ELSE rq' = [rq EXCEPT ![i] = [r EXCEPT !.pc = "audit", !.verified = TRUE]]
    /\ UNCHANGED <<webhookSecret, customers, bookings, failures>>
\* a request arrives: raw-body middleware, verifyWebhookSignature, and the
\* route up to its first await
Receive(i, signature, wire) ==
    /\ rq[i].pc = "idle"
    /\ \A j \in Requests : j < i => rq[j].pc # "idle"
    /\ LET rawBody == wire
           body == RawBodyCapture(wire)
           r == [rq[i] EXCEPT !.signature = signature, !.rawBody = rawBody, !.body = body]
       IN  IF verifyWebhookSignature(signature, webhookSecret, rawBody) = "401"
           THEN rq' = [rq EXCEPT ![i] = Respond(r, "done", 401)]
           ELSE IF body.isNull
                \* const { event_type, payload } = null throws outside the try:
                \* the rejection is lost, or the error middleware answers 500
                THEN \E lost \in BOOLEAN :
                        rq' = [rq EXCEPT ![i] =
                                  IF lost THEN [r EXCEPT !.pc = "hung", !.verified = TRUE]
                                  ELSE Respond([r EXCEPT !.verified = TRUE], "done", 500)]
                ELSE rq' = [rq EXCEPT ![i] = [r EXCEPT !.pc = "audit", !.verified = TRUE]]
    /\ UNCHANGED <<webhookSecret, tables, failures>>

\* mutant: saveWebhookEvent rethrows the store error into the catch of the route
saveWebhookEventRethrows(i) ==
    /\ rq[i].pc = "audit"
    /\ \E ok \in BOOLEAN :
        /\ Query(ok)
        /\ webhook_events' =
              IF ok THEN Append(webhook_events, AuditEntry(i, rq[i].body, "success"))
              ELSE webhook_events
        /\ rq' = [rq EXCEPT ![i] =
                     IF ok THEN Respond(@, AfterAudit(rq[i].body), 200)
                     ELSE [@ EXCEPT !.pc = "auditError", !.auditFailed = TRUE]]
    /\ UNCHANGED <<webhookSecret, customers, bookings>>
\* await saveWebhookEvent(event_type, id, req.body), then the switch
saveWebhookEvent(i) ==
    /\ rq[i].pc = "audit"
    /\ \E ok \in BOOLEAN :
        /\ Query(ok)
        /\ webhook_events' =
              IF ok THEN Append(webhook_events, AuditEntry(i, rq[i].body, "success"))
              ELSE webhook_events
        /\ rq' = [rq EXCEPT ![i] =
                     Respond([@ EXCEPT !.auditFailed = @ \/ ~ok], AfterAudit(rq[i].body), 200)]
    /\ UNCHANGED <<webhookSecret, customers, bookings>>

\* mutant: saveOrUpdateCustomer rethrows the store error, as saveBooking does
saveOrUpdateCustomerRethrows(i) ==
    /\ rq[i].pc = "customer"
    /\ LET data == CustomerData(rq[i].body.payload)
           email == CustomerEmail(data)
           after == UpsertCustomer(customers, email, CustomerName(data), CustomerPhone(data))
       IN  \E ok \in BOOLEAN :
            /\ Query(ok)
            /\ customers' = IF ok THEN after ELSE customers
            /\ rq' = [rq EXCEPT ![i] =
                         IF ok
                         THEN Respond([@ EXCEPT !.customerId = ReturningId(after, email)],
                                      AfterCustomer(rq[i].body.payload), 200)
                         ELSE [@ EXCEPT !.pc = "auditError", !.storeFailed = TRUE]]
    /\ UNCHANGED <<webhookSecret, bookings, webhook_events>>
\* await saveOrUpdateCustomer(booking.contact || booking.customer)
saveOrUpdateCustomer(i) ==
    /\ rq[i].pc = "customer"
    /\ LET data == CustomerData(rq[i].body.payload)
           email == CustomerEmail(data)
           after == UpsertCustomer(customers, email, CustomerName(data), CustomerPhone(data))
       IN  \E ok \in BOOLEAN :
            /\ Query(ok)
            /\ customers' = IF ok THEN after ELSE customers
            /\ rq' = [rq EXCEPT ![i] =
                         Respond([@ EXCEPT !.customerId =
                                               IF ok THEN ReturningId(after, email) ELSE NoNum,
                                           !.storeFailed = @ \/ ~ok],
                                 AfterCustomer(rq[i].body.payload), 200)]
    /\ UNCHANGED <<webhookSecret, bookings, webhook_events>>

\* mutant: saveBooking logs the error and returns, as the cancellation does
saveBookingSwallows(i) ==
    /\ rq[i].pc = "booking"
    /\ LET v == BookingValues(rq[i].body.payload, rq[i].customerId)
           after == UpsertBooking(bookings, v)
       IN  \E ok \in BOOLEAN :
            /\ Query(ok)
            /\ bookings' = IF ok THEN after ELSE bookings
            /\ rq' = [rq EXCEPT ![i] =
                         Respond([@ EXCEPT !.hit =
                                             ok /\ \E r \in bookings :
                                                      r.fareharbor_id = v.fareharbor_id,
                                           !.storeFailed = @ \/ ~ok,
                                           !.upsertFailed = @ \/ ~ok],
                                 "done", 200)]
    /\ UNCHANGED <<webhookSecret, customers, webhook_events>>
\* await saveBooking(booking, customerId)
saveBooking(i) ==
    /\ rq[i].pc = "booking"
    /\ LET v == BookingValues(rq[i].body.payload, rq[i].customerId)
           after == UpsertBooking(bookings, v)
       IN  \E ok \in BOOLEAN :
            /\ Query(ok)
            /\ bookings' = IF ok THEN after ELSE bookings
            /\ rq' = [rq EXCEPT ![i] =
                         IF ok
                         THEN Respond([@ EXCEPT !.hit =
                                             \E r \in bookings : r.fareharbor_id = v.fareharbor_id],
                                      "done", 200)
                         ELSE [@ EXCEPT !.pc = "auditError", !.storeFailed = TRUE,
                                        !.upsertFailed = TRUE]]
    /\ UNCHANGED <<webhookSecret, customers, webhook_events>>

\* await handleBookingCancelled(payload)
handleBookingCancelled(i) ==
    /\ rq[i].pc = "cancel"
    /\ LET key == CancelKey(rq[i].body.payload)
           after == CancelBooking(bookings, key)
       IN  \E ok \in BOOLEAN :
            /\ Query(ok)
            /\ bookings' = IF ok THEN after ELSE bookings
            /\ rq' = [rq EXCEPT ![i] =
                         Respond([@ EXCEPT !.hit = ok /\ \E r \in bookings : r.fareharbor_id = key,
                                           !.storeFailed = @ \/ ~ok],
                                 "done", 200)]
    /\ UNCHANGED <<webhookSecret, customers, webhook_events>>

\* catch (error): await saveWebhookEvent(..., 'error'), then 500
SaveFailedEvent(i) ==
    /\ rq[i].pc = "auditError"
    /\ \E ok \in BOOLEAN :
        /\ Query(ok)
        /\ webhook_events' =
              IF ok THEN Append(webhook_events, AuditEntry(i, rq[i].body, "error"))
              ELSE webhook_events
        /\ rq' = [rq EXCEPT ![i] =
                     Respond([@ EXCEPT !.auditFailed = @ \/ ~ok], "done", 500)]
    /\ UNCHANGED <<webhookSecret, customers, bookings>>

Handle(i) ==
    \/ saveWebhookEvent(i)
    \/ saveOrUpdateCustomer(i)
    \/ saveBooking(i)
    \/ handleBookingCancelled(i)
    \/ SaveFailedEvent(i)


(***************************************************************************)
(* The deliveries of a behaviour.                                          *)
(***************************************************************************)
PAnn ==
    [EmptyPayload EXCEPT !.display_id = "BK1", !.contact = Contact("a@x", "Ann", "555"),
                         !.availability = Availability("Reef", "d1"),
                         !.customer_count = 2, !.amount = 50]
PBob ==
    [EmptyPayload EXCEPT !.display_id = "BK1", !.contact = Contact("b@x", "Bob", Undefined),
                         !.tour_name = "Bay", !.tour_date = "d2", !.passenger_count = 3,
                         !.price = 75, !.status = "pending", !.source = "web",
                         !.special_requests = "vegan"]
PAnna ==
    [EmptyPayload EXCEPT !.pk = "BK2", !.customer = Contact("a@x", "Anna", "556"),
                         !.item = [present |-> TRUE, name |-> "Reef"], !.start_datetime = "d3"]
PCancel1 == [EmptyPayload EXCEPT !.display_id = "BK1"]
PCancel2 == [EmptyPayload EXCEPT !.pk = "BK2"]

\* deliveries that race for the rows BK1 and BK2
Deliveries ==
    {Json(Body("booking.created", PAnn)), Json(Body("booking.updated", PBob)),
     Json(Body("booking.created", PAnna)),
     Json(Body("booking.cancelled", PCancel1)), Json(Body("booking.cancelled", PCancel2))}
\* deliveries handled one after the other
SeqDeliveries ==
    Deliveries \cup
    {Json(Body("item.created", EmptyPayload)), Json(Body("booking.created", NoPayload)),
     Json(Body("booking.cancelled", NoPayload)), Json(NullBody), Garbage}
\* bodies of signed deliveries
AuthDeliveries ==
    {Json(Body("booking.created", PAnn)), Json(Body("booking.cancelled", PCancel1)), NotABuffer}

\* the bytes a sender signs: nothing read is the empty body
Signed(wire) == IF IsBuffer(wire) THEN wire ELSE EmptyBuffer
OtherBody(wire) == IF wire = Garbage THEN Json(Body("booking.created", PAnn)) ELSE Garbage
\* x-fareharbor-signature headers: none, the digest, the digest with the
\* sha256= prefix, the digest of another body, of another key, a truncated
\* digest, a digest whose last character lies outside ASCII
Signatures(wire) ==
    LET hex == HmacHex("s1", Signed(wire))
    IN  {<<>>, hex, Sha256Prefix \o hex, HmacHex("s1", OtherBody(wire)),
         HmacHex("s2", Signed(wire)), SubSeq(hex, 1, DigestLen - 1),
         SubSeq(hex, 1, DigestLen - 1) \o <<NonAscii>>}

NoneInFlight == \A j \in Requests : rq[j].pc \in {"idle", "done", "hung"}

Next ==
    \/ \E i \in Requests, wire \in Deliveries : Receive(i, <<>>, wire)
    \/ \E i \in Requests : Handle(i)

Spec == Init /\ [][Next]_vars

\* the store after an earlier booking.created delivery of PAnna
InitStored ==
    /\ webhookSecret = ""
    /\ customers = UpsertCustomer({}, "a@x", "Anna", "556")
    /\ bookings = UpsertBooking({}, BookingValues(PAnna, ReturningId(customers, "a@x")))
    /\ webhook_events = <<AuditEntry(0, Body("booking.created", PAnna), "success")>>
    /\ rq = [i \in Requests |-> IdleRequest]
    /\ failures = 0

SpecStored == InitStored /\ [][Next]_vars

\* one request at a time
NextSeq ==
    \/ \E i \in Requests, wire \in SeqDeliveries : NoneInFlight /\ Receive(i, <<>>, wire)
    \/ \E i \in Requests : Handle(i)

SpecSeq == Init /\ [][NextSeq]_vars

\* signed requests, with and without a configured secret
InitAuth ==
    /\ webhookSecret \in {"", "s1"}
    /\ customers = {}
    /\ bookings = {}
    /\ webhook_events = <<>>
    /\ rq = [i \in Requests |-> IdleRequest]
    /\ failures = 0

NextAuth ==
    \/ \E i \in Requests, wire \in AuthDeliveries :
          \E signature \in Signatures(wire) : NoneInFlight /\ Receive(i, signature, wire)
    \/ \E i \in Requests : Handle(i)

SpecAuth == InitAuth /\ [][NextAuth]_vars


(***************************************************************************)
(* Properties.                                                             *)
(***************************************************************************)
Acts(i) == rq'[i] # rq[i]
Event(i) == rq[i].body.event_type
Payload(i) == rq[i].body.payload
Answered(i, code) == rq[i].pc = "done" /\ rq[i].resp = code
RowsOf(table, fareharborId) == {r \in table : r.fareharbor_id = fareharborId}
\* the columns the conflict clause assigns
SameMutableFields(r, v) ==
    /\ r.status = v.status
    /\ r.amount = v.amount
    /\ r.passenger_count = v.passenger_count
    /\ r.customer_email = v.customer_email
    /\ r.customer_name = v.customer_name
    /\ r.tour_name = v.tour_name
    /\ r.tour_date = v.tour_date
\* the columns it leaves alone
SameInsertOnlyFields(r, v) ==
    /\ r.customer_id = v.customer_id
    /\ r.booking_source = v.booking_source
    /\ r.special_requests = v.special_requests
    /\ r.raw_data = v.raw_data

\* C1: in every reachable state, under any interleaving of created, updated
\* and cancelled deliveries, the bookings table holds at most one row per
\* provider booking identifier.
C1_OneRowPerIdentifier ==
    \A r1, r2 \in bookings : r1.fareharbor_id = r2.fareharbor_id => r1 = r2
\* two writes of BK1 overlapped: the request received second inserted the
\* row, the one received first then hit it
C1_Witness ==
    /\ Answered(1, 200) /\ Answered(2, 200)
    /\ IsBookingWrite(Event(1)) /\ IsBookingWrite(Event(2))
    /\ rq[1].hit /\ ~rq[2].hit
    /\ Cardinality(RowsOf(bookings, "BK1")) = 1

\* request i re-delivers the booking.created event of request i-1, which was
\* processed with no failed statement
Redelivery(i) ==
    /\ i > 1
    /\ Event(i) = "booking.created"
    /\ rq[i].body = rq[i - 1].body
    /\ Answered(i - 1, 200)
    /\ ~rq[i - 1].storeFailed
\* the row of a processed re-delivery: one row, holding the delivery's values
\* (the insert-only columns when the first delivery inserted the row)
RedeliveredRow(i) ==
    LET v == BookingValues(Payload(i), rq[i - 1].customerId)
    IN  /\ Cardinality(RowsOf(bookings, v.fareharbor_id)) = 1
        /\ \A r \in RowsOf(bookings, v.fareharbor_id) :
              /\ SameMutableFields(r, v)
              /\ ~rq[i - 1].hit => SameInsertOnlyFields(r, v)
        /\ \A c \in customers :
              c.id = v.customer_id =>
                  /\ c.email = CustomerEmail(CustomerData(Payload(i)))
                  /\ c.name = CustomerName(CustomerData(Payload(i)))
\* C2: handled one after the other, the second delivery of the same
\* booking.created event changes neither the customers nor the bookings
\* table, and when it is answered there is exactly one row for the
\* identifier, whose fields are the delivery's values.
C2_Idempotent ==
    [][\A i \in Requests :
          /\ Redelivery(i) /\ Acts(i) => UNCHANGED <<customers, bookings>>
          /\ Redelivery(i) /\ Acts(i) /\ Answered(i, 200)'
             /\ TruthyS(BookingValues(Payload(i), NoNum).fareharbor_id)
                => RedeliveredRow(i)']_vars
C2_Witness ==
    \E i \in Requests :
        /\ Redelivery(i) /\ Answered(i, 200) /\ ~rq[i].storeFailed
        /\ rq[i].hit /\ ~rq[i - 1].hit
        /\ rq[i].customerId # NoNum

\* C3: when the upsert of a created or updated event commits on an identifier
\* that has a row, the row's status, amount, passenger count, customer email,
\* customer name, tour name and tour date are the values of this delivery.
C3_ConflictOverwrites ==
    [][\A i \in Requests :
          LET v == BookingValues(Payload(i), rq[i].customerId)
          IN  /\ rq[i].pc = "booking" /\ rq'[i].pc = "done"
              /\ RowsOf(bookings, v.fareharbor_id) # {}
              => /\ RowsOf(bookings', v.fareharbor_id) # {}
                 /\ \A r \in RowsOf(bookings', v.fareharbor_id) : SameMutableFields(r, v)]_vars
\* an update with other values has hit the row a creation inserted
C3_Witness ==
    \E i, j \in Requests :
        /\ Answered(i, 200) /\ rq[i].hit /\ Event(i) = "booking.updated"
        /\ Answered(j, 200) /\ ~rq[j].hit /\ Event(j) = "booking.created"
        /\ BookingValues(Payload(i), NoNum).fareharbor_id
               = BookingValues(Payload(j), NoNum).fareharbor_id
        /\ BookingValues(Payload(i), NoNum).amount # BookingValues(Payload(j), NoNum).amount
        /\ \E r \in bookings : r.amount = BookingValues(Payload(i), NoNum).amount

C5_CancelUnknown ==
    [][\A i \in Requests :
          /\ Acts(i) /\ rq[i].pc = "cancel"
          /\ RowsOf(bookings, CancelKey(Payload(i))) = {}
          => /\ UNCHANGED <<customers, bookings>>
             /\ rq'[i].pc = "done" /\ rq'[i].resp = 200]_vars
\* a cancellation that found no row, with another row in the table
C5_Witness ==
    \E i \in Requests :
        /\ Answered(i, 200) /\ Event(i) = "booking.cancelled" /\ Payload(i).present
        /\ ~rq[i].hit /\ ~rq[i].storeFailed
        /\ RowsOf(bookings, CancelKey(Payload(i))) = {}
        /\ bookings # {}

\* the audit rows request i has written
AuditRows(i) == {k \in DOMAIN webhook_events : webhook_events[k].rid = i}
\* C6: each verified, completed request whose audit inserts succeeded has
\* added exactly one audit entry, so N such requests leave N entries.
C6_OneAuditEntryPerRequest ==
    \A i \in Requests :
        rq[i].pc = "done" /\ rq[i].verified /\ ~rq[i].auditFailed
        => Cardinality(AuditRows(i)) = 1

\* C7: an audit entry is written only once its request's dispatch and
\* reconciliation have finished, and no entry with status success exists for a
\* request whose booking upsert failed.
C7_AuditAfterOutcome ==
    \A k \in DOMAIN webhook_events :
        LET e == webhook_events[k]
        IN  /\ rq[e.rid].pc = "done"
            /\ rq[e.rid].upsertFailed => e.processing_status # "success"

\* the signature header with an optional sha256= stripped
Stripped(signature) ==
    IF StartsWith(signature, Sha256Prefix) THEN Slice(signature, 7) ELSE signature
\* C8: with a secret configured, a request reaches the route if and only if
\* its stripped signature is the hex HMAC-SHA256 of the raw body under the
\* secret; any other request is answered 401, never 500.
C8_SignatureGate ==
    TruthyS(webhookSecret) =>
        \A i \in Requests :
            rq[i].pc # "idle" =>
                /\ rq[i].verified <=>
                      /\ IsBuffer(rq[i].rawBody)
                      /\ Stripped(rq[i].signature) = HmacHex(webhookSecret, rq[i].rawBody)
                /\ ~rq[i].verified => Answered(i, 401)
\* with the secret configured, a prefixed digest was let through and a
\* digest of the wrong encoding was answered 401
C8_Witness ==
    /\ TruthyS(webhookSecret)
    /\ \E i, j \in Requests :
          /\ rq[i].verified /\ Answered(i, 200)
          /\ StartsWith(rq[i].signature, Sha256Prefix)
          /\ Answered(j, 401)
          /\ Len(rq[j].signature) = DigestLen
          /\ rq[j].signature[DigestLen] = NonAscii

\* C9: with no secret configured, every request passes verification and
\* reaches the route, whatever its signature header and its body.
C9_NoSecretNoGate ==
    ~TruthyS(webhookSecret) =>
        \A i \in Requests : rq[i].pc # "idle" => rq[i].verified /\ rq[i].resp # 401
\* no secret: requests with no signature, with a malformed one and with no
\* readable body all reached the route
C9_Witness ==
    /\ ~TruthyS(webhookSecret)
    /\ \E i, j \in Requests :
          /\ rq[i].verified /\ rq[i].signature = <<>> /\ Answered(i, 200)
          /\ rq[j].verified /\ rq[j].signature # <<>> /\ ~IsBuffer(rq[j].rawBody)
          /\ rq[j].signature[Len(rq[j].signature)] = NonAscii
          /\ Answered(j, 200)

\* C10: a request answered 401 by the verifier writes nothing: the step that
\* rejects it leaves the three tables unchanged, it takes no further step, and
\* no audit row is ever its own.
C10_RejectedWritesNothing ==
    [][\A i \in Requests :
          /\ Acts(i) /\ rq'[i].resp = 401 => UNCHANGED tables
          /\ rq[i].resp = 401 => ~Acts(i) /\ AuditRows(i) = {}]_vars
\* a request was rejected after another one had filled the tables
C10_Witness ==
    \E i \in Requests :
        /\ Answered(i, 401) /\ ~rq[i].verified
        /\ rq[i].signature # <<>>
        /\ bookings # {} /\ customers # {} /\ webhook_events # <<>>

(***************************************************************************)
(* Responses and failures of the store.                                    *)
(***************************************************************************)
\* C11: every request that reached the pipeline is answered exactly once, with
\* 200, 401 or 500, as long as the store answers every statement: a request
\* that has been received either has its response, or waits for a statement
\* of the store whose return lets it go on.
C11_EveryRequestAnswered ==
    \A i \in Requests :
        rq[i].pc # "idle" =>
            \/ rq[i].pc = "done" /\ rq[i].resp \in {200, 401, 500}
            \/ rq[i].pc \in {"audit", "customer", "booking", "cancel", "auditError"}

\* C12: when the booking upsert of a created or updated event fails, the
\* failing statement leaves the bookings table as it was and sends the request
\* to the catch of the route; the request's one remaining step answers 500,
\* touches no booking, and appends an audit entry with status error (unless
\* that insert fails too, which is swallowed).
C12_UpsertFailureSurfaced ==
    [][\A i \in Requests :
          /\ Acts(i) /\ rq'[i].upsertFailed /\ ~rq[i].upsertFailed =>
                /\ rq[i].pc = "booking" /\ IsBookingWrite(Event(i))
                /\ rq'[i].pc = "auditError"
                /\ bookings' = bookings
          /\ Acts(i) /\ rq[i].upsertFailed =>
                /\ Answered(i, 500)'
                /\ bookings' = bookings
                /\ \/ webhook_events' =
                         Append(webhook_events, AuditEntry(i, rq[i].body, "error"))
                   \/ failures' > failures /\ webhook_events' = webhook_events]_vars
\* the upsert of a request failed: answered 500, an error entry is its own,
\* and the row it would have written does not exist
C12_Witness ==
    \E i \in Requests :
        /\ rq[i].upsertFailed /\ Answered(i, 500)
        /\ \E k \in AuditRows(i) : webhook_events[k].processing_status = "error"
        /\ RowsOf(bookings, BookingValues(Payload(i), NoNum).fareharbor_id) = {}

\* C13: when the customer upsert of a created or updated event fails, the
\* event goes on: the failing statement changes no customer and leaves the
\* request without a customer id, the booking upsert is the next statement,
\* and when that succeeds the request is answered 200 and the row it inserts
\* has a NULL customer_id.
C13_CustomerFailureDegrades ==
    [][\A i \in Requests :
          LET fareharborId == BookingValues(Payload(i), NoNum).fareharbor_id
          IN  /\ rq[i].pc = "customer" /\ Acts(i) /\ rq'[i].storeFailed =>
                    /\ customers' = customers
                    /\ rq'[i].customerId = NoNum
                    /\ IF TruthyS(fareharborId) THEN rq'[i].pc = "booking"
                       ELSE Answered(i, 200)'
              /\ rq[i].pc = "booking" /\ rq[i].storeFailed /\ Acts(i)
                     /\ ~rq'[i].upsertFailed =>
                    /\ Answered(i, 200)'
                    /\ RowsOf(bookings', fareharborId) # {}
                    /\ RowsOf(bookings, fareharborId) = {} =>
                          \A r \in RowsOf(bookings', fareharborId) : r.customer_id = NoNum]_vars
\* a booking was inserted for a contact whose customer upsert failed
C13_Witness ==
    \E i \in Requests :
        /\ IsBookingWrite(Event(i)) /\ Answered(i, 200)
        /\ rq[i].storeFailed /\ ~rq[i].upsertFailed /\ ~rq[i].hit
        /\ \E r \in bookings :
              /\ r.raw_data = Payload(i)
              /\ r.customer_id = NoNum /\ TruthyS(r.customer_email)

\* what decides the response of a request, the audit inserts apart: its
\* body, the verdict of the verifier, and the outcomes of its customer,
\* booking and cancellation statements
AllElse(i) ==
    <<rq[i].body, rq[i].rawBody, rq[i].verified, rq[i].storeFailed, rq[i].upsertFailed>>
\* C14: a failing audit insert never changes the response: two answered
\* requests that agree in everything but the outcome of their audit inserts
\* have the same response status.
C14_AuditFailureInvisible ==
    \A i, j \in Requests :
        /\ rq[i].pc = "done" /\ rq[j].pc = "done"
        /\ AllElse(i) = AllElse(j)
        => rq[i].resp = rq[j].resp
\* the same delivery was handled twice, once with a failing audit insert and
\* once with a succeeding one, and it reached the store both times
C14_Witness ==
    \E i, j \in Requests :
        /\ rq[i].pc = "done" /\ rq[j].pc = "done"
        /\ AllElse(i) = AllElse(j)
        /\ rq[i].auditFailed /\ ~rq[j].auditFailed
        /\ AuditRows(i) = {} /\ AuditRows(j) # {}
        /\ IsBookingWrite(Event(i)) /\ rq[i].resp = 200

(***************************************************************************)
(* Payload shapes, defaults and identifiers: deliveries handled one after  *)
(* the other, each payload with an identifier of its own.                  *)
(***************************************************************************)
\* the same booking data with the contact nested and with flat fields
PNested ==
    [EmptyPayload EXCEPT !.display_id = "N1", !.contact = Contact("a@x", "Ann", Undefined),
                         !.tour_name = "Reef"]
PFlat ==
    [EmptyPayload EXCEPT !.display_id = "F1", !.customer_email = "a@x",
                         !.customer_name = "Ann", !.tour_name = "Reef"]
\* passenger count, amount, status and source omitted, supplied, supplied as
\* zero
PDefaults == [EmptyPayload EXCEPT !.display_id = "D1"]
PSupplied ==
    [EmptyPayload EXCEPT !.display_id = "S1", !.passenger_count = 3, !.amount = 50,
                         !.status = "pending", !.booking_source = "web"]
PZero == [EmptyPayload EXCEPT !.display_id = "Z1", !.passenger_count = 0, !.amount = 0]
\* the three identifier fields: all present, the first empty, the last alone
PIds == [EmptyPayload EXCEPT !.display_id = "A1", !.pk = "B1", !.id = "C1"]
PPk == [EmptyPayload EXCEPT !.display_id = "", !.pk = "B2", !.id = "C2"]
PId == [EmptyPayload EXCEPT !.id = "C3"]
\* a contact and no identifier
PNoId == [EmptyPayload EXCEPT !.contact = Contact("c@x", "Cy", "557")]

ShapeDeliveries ==
    {Json(Body("booking.created", p)) :
        p \in {PNested, PFlat, PDefaults, PSupplied, PZero, PIds, PPk, PId, PNoId, NoPayload}}
    \cup {Json(Body("booking.updated", PNoId)), Json(Body("booking.cancelled", PNested)),
          Json(Body("booking.rebooked", PNested)), Json(Body("item.created", EmptyPayload)),
          Json(Body(Undefined, PNested)), Json(Body("booking.cancelled", PId)),
          Garbage, EmptyBuffer, NotABuffer}

NextShapes ==
    \/ \E i \in Requests, wire \in ShapeDeliveries : NoneInFlight /\ Receive(i, <<>>, wire)
    \/ \E i \in Requests : Handle(i)

SpecShapes == Init /\ [][NextShapes]_vars

\* the identifier saveBooking resolves
FareharborId(i) == BookingValues(Payload(i), NoNum).fareharbor_id

\* C15: a created or updated event from which no booking identifier can be
\* resolved, the event with no payload included, changes no booking at any of
\* its steps and is answered 200, with an audit entry of its own unless the
\* insert failed.
C15_NoIdentifierAcknowledged ==
    [][\A i \in Requests :
          Acts(i) /\ rq'[i].verified /\ ~rq'[i].body.isNull
              /\ IsBookingWrite(Event(i)') /\ ~TruthyS(FareharborId(i)') =>
                /\ bookings' = bookings
                /\ rq'[i].pc = "done" =>
                      /\ rq'[i].resp = 200
                      /\ AuditRows(i)' # {} \/ rq'[i].auditFailed]_vars

\* C16: an event whose type is none of booking.created, booking.updated and
\* booking.cancelled (an item event, an unknown type, no type) takes one
\* statement, the audit insert: that step answers 200 and appends the
\* request's audit entry (unless the insert fails), and no step of the
\* request changes a customer or a booking.
C16_OtherEventsOnlyAudited ==
    [][\A i \in Requests :
          Acts(i) /\ rq'[i].verified /\ ~rq'[i].body.isNull
              /\ Event(i)' \notin {"booking.created", "booking.updated", "booking.cancelled"} =>
                /\ customers' = customers /\ bookings' = bookings
                /\ \/ rq[i].pc = "idle" /\ rq'[i].pc = "audit"
                         /\ webhook_events' = webhook_events
                   \/ /\ rq[i].pc = "audit" /\ Answered(i, 200)'
                      /\ \/ webhook_events' =
                               Append(webhook_events, AuditEntry(i, rq[i].body, "success"))
                         \/ failures' > failures /\ webhook_events' = webhook_events]_vars
\* an event of an unknown type that carries a whole booking was answered 200
\* and left its audit entry and nothing else
C16_Witness ==
    \E i \in Requests :
        /\ Event(i) = "booking.rebooked" /\ Payload(i) = PNested
        /\ Answered(i, 200) /\ AuditRows(i) # {}
        /\ customers = {} /\ bookings = {}

\* what a payload says, as saveBooking reads it, its identifier apart
LogicalData(payload) ==
    [BookingValues(payload, NoNum) EXCEPT !.fareharbor_id = "", !.raw_data = EmptyPayload]
\* what the store holds for the booking of request i: the row, its keys and
\* its raw payload apart, with the customer row it references
StoredRecords(i) ==
    {[booking |-> [r EXCEPT !.id = 0, !.fareharbor_id = "", !.customer_id = 0,
                            !.raw_data = EmptyPayload],
      customer |-> {[email |-> c.email, name |-> c.name, phone |-> c.phone] :
                       c \in {c \in customers : c.id = r.customer_id}}] :
        r \in RowsOf(bookings, FareharborId(i))}
\* C17: two booking.created events that carry the same data, one with the
\* contact nested and one with flat customer_email / customer_name fields,
\* are stored alike: the same booking fields, the same customer linkage, the
\* same customer row.
C17_ShapesStoredAlike ==
    \A i, j \in Requests :
        /\ Answered(i, 200) /\ Answered(j, 200)
        /\ Event(i) = "booking.created" /\ Event(j) = "booking.created"
        /\ ~rq[i].storeFailed /\ ~rq[j].storeFailed
        /\ TruthyS(FareharborId(i)) /\ TruthyS(FareharborId(j))
        /\ LogicalData(Payload(i)) = LogicalData(Payload(j))
        => StoredRecords(i) = StoredRecords(j)

\* the value of a field of the payload when it is supplied, else its default
SuppliedN(n, default) == IF n # NoNum THEN n ELSE default
SuppliedS(s, default) == IF s # Undefined THEN s ELSE default
\* C18: the row stored for a created or updated event has the passenger
\* count, amount, status and source the payload supplies, and 1, 0, confirmed
\* and fareharbor for those it omits.
C18_DefaultsOnlyWhenOmitted ==
    [][\A i \in Requests :
          rq[i].pc = "booking" /\ Acts(i) /\ ~rq'[i].upsertFailed /\ ~rq'[i].hit =>
              \A r \in RowsOf(bookings', FareharborId(i)) :
                  LET p == Payload(i)
                  IN  /\ r.passenger_count =
                             SuppliedN(p.customer_count, SuppliedN(p.passenger_count, 1))
                      /\ r.amount = SuppliedN(p.amount, SuppliedN(p.price, 0))
                      /\ r.status = SuppliedS(p.status, "confirmed")
                      /\ r.booking_source =
                             SuppliedS(p.booking_source, SuppliedS(p.source, "fareharbor"))]_vars

\* the first of the candidates that is neither absent nor empty
RECURSIVE FirstNonEmpty(_)
FirstNonEmpty(candidates) ==
    IF candidates = <<>> THEN Undefined
    ELSE IF Head(candidates) \notin {Undefined, ""} THEN Head(candidates)
         ELSE FirstNonEmpty(Tail(candidates))
\* C19: a created or updated event is stored under the first non-empty of
\* display_id, pk and id, in that order: a successful booking upsert leaves a
\* row with that identifier and creates or changes no row with another one.
C19_FirstNonEmptyIdentifier ==
    [][\A i \in Requests :
          rq[i].pc = "booking" /\ Acts(i) /\ ~rq'[i].upsertFailed =>
              LET p == Payload(i)
                  key == FirstNonEmpty(<<p.display_id, p.pk, p.id>>)
              IN  /\ key \notin {Undefined, ""}
                  /\ RowsOf(bookings', key) # {}
                  /\ \A r \in bookings' : r.fareharbor_id # key => r \in bookings]_vars
\* one booking is stored under its display_id although it has a pk and an
\* id, another under its pk because its display_id is empty
C19_Witness ==
    /\ \E r \in bookings :
          r.fareharbor_id = "A1" /\ r.raw_data.pk = "B1" /\ r.raw_data.id = "C1"
    /\ \E r \in bookings :
          r.fareharbor_id = "B2" /\ r.raw_data.display_id = "" /\ r.raw_data.id = "C2"

(***************************************************************************)
(* The customers table.                                                    *)
(***************************************************************************)
CustomersOf(table, email) == {c \in table : c.email = email}
\* request i commits its customer upsert in this step
CommitsCustomer(i) == rq[i].pc = "customer" /\ Acts(i) /\ ~rq'[i].storeFailed
\* C20: under every interleaving the customers table holds at most one row
\* per email, and the row has the name and phone of the customer upsert
\* committed last for its email: a committed upsert leaves exactly one row
\* for its email, with its own name and phone, and every other row as it
\* was; no other step changes the table.
C20_OneCustomerPerEmail ==
    [][/\ \A c1, c2 \in customers' : c1.email = c2.email => c1 = c2
       /\ \A i \in Requests :
             CommitsCustomer(i) =>
                 LET data == CustomerData(Payload(i))
                     email == CustomerEmail(data)
                 IN  /\ Cardinality(CustomersOf(customers', email)) = 1
                     /\ \A c \in CustomersOf(customers', email) :
                           /\ c.name = CustomerName(data)
                           /\ c.phone = CustomerPhone(data)
                           /\ rq'[i].customerId = c.id
                     /\ customers' \ CustomersOf(customers', email)
                            = customers \ CustomersOf(customers, email)
       /\ (\A i \in Requests : ~CommitsCustomer(i)) => customers' = customers]_vars
\* two overlapping requests committed upserts for a@x, Ann first and Anna
\* last: one row, which reads Anna, 556
C20_Witness ==
    /\ customers = {[id |-> 1, email |-> "a@x", name |-> "Anna", phone |-> "556"]}
    /\ \E i, j \in Requests :
          /\ Payload(i) = PAnn /\ Payload(j) = PAnna
          /\ rq[i].customerId = 1 /\ rq[j].customerId = 1
          /\ rq[i].pc = "booking" /\ rq[j].pc = "booking"

(***************************************************************************)
(* Failures, races and orderings.                                          *)
(***************************************************************************)
\* C21: a request one of whose storage statements failed (customer upsert,
\* booking upsert, cancellation update) is never answered 200: it is answered
\* 500 after an audit insert with status error, whose row exists unless that
\* insert failed too.
C21_StoreFailureNeverAcknowledged ==
    \A i \in Requests :
        rq[i].pc = "done" /\ rq[i].storeFailed =>
            /\ rq[i].resp = 500
            /\ \/ \E k \in AuditRows(i) : webhook_events[k].processing_status = "error"
               \/ rq[i].auditFailed

\* requests i and j are the only ones that concern the booking of i, both
\* upserted it, j inserted the row and i hit it: the upsert of i committed last
RacedFor(i, j) ==
    /\ i # j
    /\ IsBookingWrite(Event(i)) /\ IsBookingWrite(Event(j))
    /\ Answered(i, 200) /\ Answered(j, 200)
    /\ TruthyS(FareharborId(i)) /\ FareharborId(i) = FareharborId(j)
    /\ rq[i].hit /\ ~rq[j].hit
    /\ \A k \in Requests \ {i, j} :
          \/ rq[k].pc = "idle"
          \/ /\ FareharborId(k) # FareharborId(i)
             /\ CancelKey(Payload(k)) # FareharborId(i)
\* C22 as claimed: once two created/updated deliveries for one identifier
\* have both completed, every stored field of the one row comes from the
\* delivery whose upsert committed last.
C22_LastCommittedWinsEveryField ==
    \A i, j \in Requests :
        RacedFor(i, j) =>
            \A r \in RowsOf(bookings, FareharborId(i)) :
                LET v == BookingValues(Payload(i), rq[i].customerId)
                IN  SameMutableFields(r, v) /\ SameInsertOnlyFields(r, v)
\* C22 as the code has it: once both have completed there is one row; the
\* columns the conflict clause assigns (status, amount, passenger_count,
\* customer_email, customer_name, tour_name, tour_date) come from the delivery
\* whose upsert committed last, and customer_id, booking_source,
\* special_requests and raw_data from the one whose upsert inserted the row.
C22_LastCommittedWinsMutableFields ==
    \A i, j \in Requests :
        RacedFor(i, j) =>
            /\ Cardinality(RowsOf(bookings, FareharborId(i))) = 1
            /\ \A r \in RowsOf(bookings, FareharborId(i)) :
                  /\ SameMutableFields(r, BookingValues(Payload(i), rq[i].customerId))
                  /\ SameInsertOnlyFields(r, BookingValues(Payload(j), rq[j].customerId))
\* the request received first committed last: request 2 overtook it and
\* inserted the row, and the two deliveries differ in both kinds of column
C22_Witness ==
    /\ RacedFor(1, 2)
    /\ LET v1 == BookingValues(Payload(1), rq[1].customerId)
           v2 == BookingValues(Payload(2), rq[2].customerId)
       IN  /\ v1.status # v2.status /\ v1.customer_email # v2.customer_email
           /\ v1.customer_id # v2.customer_id /\ v1.booking_source # v2.booking_source

\* a booking.created delivery i and a booking.cancelled delivery j for its
\* identifier have both been processed, no statement of theirs having failed
CreatedAndCancelled(i, j) ==
    /\ Event(i) = "booking.created" /\ Answered(i, 200) /\ ~rq[i].storeFailed
    /\ Event(j) = "booking.cancelled" /\ Answered(j, 200) /\ ~rq[j].storeFailed
    /\ TruthyS(FareharborId(i)) /\ CancelKey(Payload(j)) = FareharborId(i)
\* C23 as claimed: once a booking.created and a booking.cancelled event for
\* one identifier have both been processed, in either order, the row exists
\* with status cancelled.
C23_CancelledInEitherOrder ==
    \A i, j \in Requests :
        CreatedAndCancelled(i, j) =>
            /\ RowsOf(bookings, FareharborId(i)) # {}
            /\ \A r \in RowsOf(bookings, FareharborId(i)) : r.status = "cancelled"
\* C23 as the code has it: the status of the row is that of the statement
\* committed last.  A cancellation that commits leaves every row of its
\* identifier cancelled and creates none; a created or updated upsert that
\* commits leaves the row with the status of its payload, a cancelled row
\* included.
C23_LastStatementDecidesStatus ==
    [][\A i \in Requests :
          /\ rq[i].pc = "cancel" /\ Acts(i) /\ ~rq'[i].storeFailed =>
                /\ \A r \in RowsOf(bookings', CancelKey(Payload(i))) : r.status = "cancelled"
                /\ {r.id : r \in bookings'} = {r.id : r \in bookings}
          /\ rq[i].pc = "booking" /\ Acts(i) /\ ~rq'[i].upsertFailed =>
                /\ RowsOf(bookings', FareharborId(i)) # {}
                /\ \A r \in RowsOf(bookings', FareharborId(i)) :
                      r.status = BookingValues(Payload(i), NoNum).status]_vars
\* the cancellation was processed and then the created delivery: the row
\* exists and is confirmed
C23_Witness ==
    \E i, j \in Requests :
        /\ CreatedAndCancelled(i, j)
        /\ \E r \in RowsOf(bookings, FareharborId(i)) : r.status = "confirmed"

(***************************************************************************)
(* Bodies, identifiers and columns.                                        *)
(***************************************************************************)
\* C24: a request whose body is no JSON text, or is empty, is handled as the
\* empty body {}: the route sees no event type and no payload, its one
\* statement is the audit insert, after which it is answered 200, and no step
\* of it changes a customer or a booking.
C24_UnparseableBodyIsEmpty ==
    [][\A i \in Requests :
          Acts(i) /\ rq'[i].rawBody.kind \in {"garbage", "empty", "none"} =>
              /\ rq'[i].body = EmptyBody
              /\ customers' = customers /\ bookings' = bookings
              /\ \/ rq[i].pc = "idle" /\ rq'[i].pc = "audit"
                 \/ rq[i].pc = "audit" /\ Answered(i, 200)']_vars
\* a body that is no JSON text and a body of zero bytes were both answered
\* 200, each with its audit entry, the tables otherwise empty
C24_Witness ==
    \E i, j \in Requests :
        /\ rq[i].rawBody = Garbage /\ Answered(i, 200) /\ AuditRows(i) # {}
        /\ rq[j].rawBody = EmptyBuffer /\ Answered(j, 200) /\ AuditRows(j) # {}
        /\ customers = {} /\ bookings = {}

\* C25: a created or updated event from which no booking identifier can be
\* resolved skips persistence: no step of it changes a customer or a booking,
\* even when its payload carries a contact with an email.
C25_NoIdentifierWritesNothing ==
    [][\A i \in Requests :
          Acts(i) /\ IsBookingWrite(Event(i)') /\ ~TruthyS(FareharborId(i)') =>
              customers' = customers /\ bookings' = bookings]_vars

\* C26: a booking.cancelled event cancels the row that a created event with
\* the same identifier fields stored, whichever of display_id, pk and id holds
\* the identifier: a cancellation that commits leaves the rows stored under
\* the identifier of its payload with status cancelled.
C26_CancelFindsCreatedRow ==
    [][\A i \in Requests :
          rq[i].pc = "cancel" /\ Acts(i) /\ ~rq'[i].storeFailed =>
              \A r \in RowsOf(bookings', FareharborId(i)) : r.status = "cancelled"]_vars

\* C27: the identifier in the audit entries of a created or updated event is
\* the one resolved for the event (display_id, then pk, then id), the
\* identifier of the row the event stores, and NULL only when none resolves.
C27_AuditIdentifierIsResolved ==
    \A k \in DOMAIN webhook_events :
        LET e == webhook_events[k]
        IN  IsBookingWrite(e.event_type) =>
                e.fareharbor_id = BookingValues(e.raw_payload.payload, NoNum).fareharbor_id

\* C28: every booking row that references a customer carries the email of
\* the customer row it references, also after an update that changes the
\* contact email of the booking.
C28_DenormalizedEmailInSync ==
    \A r \in bookings :
        r.customer_id # NoNum =>
            \E c \in customers : c.id = r.customer_id /\ c.email = r.customer_email

\* C30: when a created or updated event hits an identifier that already has a
\* row, the upsert leaves the row's customer_id, booking_source,
\* special_requests and raw_data as they were, whatever the event carries, and
\* keeps the row's key.
C30_InsertOnlyColumnsKept ==
    [][\A i \in Requests :
          rq[i].pc = "booking" /\ Acts(i) /\ ~rq'[i].upsertFailed =>
              \A r \in RowsOf(bookings, FareharborId(i)) :
                  \E s \in RowsOf(bookings', FareharborId(i)) :
                      /\ s.id = r.id
                      /\ SameInsertOnlyFields(s, r)]_vars
\* an update with another contact, source, special requests and payload hit
\* the row of an earlier delivery, whose four columns the row still has
C30_Witness ==
    \E i, j \in Requests :
        /\ RacedFor(i, j)
        /\ LET vi == BookingValues(Payload(i), rq[i].customerId)
               vj == BookingValues(Payload(j), rq[j].customerId)
           IN  /\ vi.customer_id # vj.customer_id /\ vi.booking_source # vj.booking_source
               /\ vi.special_requests # vj.special_requests /\ vi.raw_data # vj.raw_data
               /\ \E r \in bookings : SameInsertOnlyFields(r, vj) /\ SameMutableFields(r, vi)

(***************************************************************************)
(* The earlier pipeline of app.js: its verifier, whose signature check is  *)
(* commented out, in front of its handler.  The handler is kept abstract:  *)
(* the audit insert, then the switch, which returns or throws.             *)
(***************************************************************************)
\* verifyWebhookSignature of app.js: without a secret it calls next(); with
\* one it returns without calling next() and without a response
draftVerifyWebhookSignature(signature, secret) ==
    IF ~TruthyS(secret) THEN "next" ELSE "pending"

\* a request arrives at app.post('/webhook', verifyWebhookSignature, ...)
DraftReceive(i, signature, wire) ==
    /\ rq[i].pc = "idle"
    /\ \A j \in Requests : j < i => rq[j].pc # "idle"
    /\ \A j \in Requests : rq[j].pc \in {"idle", "done", "pending"}
    \* express.json() has parsed the body before the route
    /\ LET body == IF wire.kind = "json" THEN wire.value ELSE EmptyBody
           r == [rq[i] EXCEPT !.signature = signature, !.rawBody = wire, !.body = body]
       IN  IF draftVerifyWebhookSignature(signature, webhookSecret) = "pending"
           THEN rq' = [rq EXCEPT ![i] = [r EXCEPT !.pc = "pending"]]
           ELSE rq' = [rq EXCEPT ![i] = [r EXCEPT !.pc = "audit", !.verified = TRUE]]
    /\ UNCHANGED <<webhookSecret, tables, failures>>

\* the handler of app.js: await saveWebhookEvent(event_type,
\* payload?.display_id, req.body), then the switch, which returns (200) or
\* throws into the catch (a second audit insert, then 500)
DraftHandle(i) ==
    /\ rq[i].pc = "audit"
    /\ \E threw \in BOOLEAN :
        LET entry(status) ==
                [AuditEntry(i, rq[i].body, status) EXCEPT
                    !.fareharbor_id = rq[i].body.payload.display_id]
        IN  /\ webhook_events' =
                  IF threw
                  THEN webhook_events \o <<entry("success"), entry("error")>>
                  ELSE Append(webhook_events, entry("success"))
            /\ rq' = [rq EXCEPT ![i] = Respond(@, "done", IF threw THEN 500 ELSE 200)]
    /\ UNCHANGED <<webhookSecret, customers, bookings, failures>>

NextDraft ==
    \/ \E i \in Requests, wire \in AuthDeliveries :
          \E signature \in Signatures(wire) : DraftReceive(i, signature, wire)
    \/ \E i \in Requests : DraftHandle(i)

SpecDraft == InitAuth /\ [][NextDraft]_vars

\* C29: in the earlier pipeline of app.js, a request received while a secret
\* is configured is either rejected with 401 or passed to the handler; the
\* verification is never skipped or left pending.
C29_DraftVerifierDecides ==
    \A i \in Requests :
        TruthyS(webhookSecret) /\ rq[i].pc # "idle" =>
            \/ Answered(i, 401)
            \/ rq[i].verified /\ rq[i].pc # "pending"

====
